---- MODULE Spec2Model ----
(***************************************************************************)
(* Session orchestration of the Scheme Research Application (src/main.py). *)
(*                                                                         *)
(* The program is a Streamlit script: every user event (a widget change or *)
(* a button click) runs the whole script run_app() once, top to bottom,    *)
(* against the session's st.session_state.  One action of this model is    *)
(* one user event together with the complete script run it causes,         *)
(* including the run started by st.rerun().                                *)
(*                                                                         *)
(* Text is a sequence of characters; " " is the whitespace character and   *)
(* every other element stands for a run of non-blank characters.           *)
(* External collaborators (URL loader, PDF loader, retrieval chain, hosted *)
(* model, os.remove) are oracles: each action draws their outcome,         *)
(* failures included, from a small set.                                    *)
(***************************************************************************)
EXTENDS Integers, Sequences, FiniteSets, TLC

VARIABLES
    GROQ_API_KEY,    \* TRUE iff the credential was found in the environment
    input_type,      \* sidebar radio: "None" | "URLs" | "PDF"
    raw_links,       \* sidebar text area: the lines of the pasted text
    url_file,        \* sidebar file uploader: None or an uploaded file
    model_choice,    \* sidebar radio: the model label
    question,        \* the text input "What would you like to know..."
    session_state,   \* st.session_state: a function from the keys present
    uploads,         \* the file names in the uploads/ directory
    summary_src,     \* history: the index the cached summary was made from
    first_model,     \* history: the model that answered qa_history[1]
    last_run         \* history: what the last event's script run did

vars == <<GROQ_API_KEY, input_type, raw_links, url_file, model_choice,
          question, session_state, uploads, summary_src, first_model,
          last_run>>

----------------------------------------------------------------------------
(* Bounds of the model *)

\* the longest pasted text, in lines
MaxLines == 1
\* the most pages an uploaded PDF has
MaxPages == 1

(* Values *)

None == [kind |-> "None"]
Truthy(v) == v # None

InputTypes == {"None", "URLs", "PDF"}
FastLabel == "llama3-8b (Fast)"
AccurateLabel == "llama3-70b (Accurate)"
ModelLabels == {FastLabel, AccurateLabel}

\* the lines a user may paste: a blank line, a URL with spaces around it
Lines == {<<" ">>, <<" ", "u1", " ">>}
\* what a fetched page or a PDF page may hold: whitespace only, or text
Contents == {<<" ">>, <<"t", " ">>}
PdfNames == {"a.pdf"}
Questions == {"q1", "q2"}
\* what the hosted model may return for a question (the script stores the
\* text as it is and branches on nothing in it but a log line)
Answers == {<<"a1", " ">>}

RECURSIVE SeqsUpTo(_, _)
SeqsUpTo(S, n) ==
    IF n = 0 THEN {<<>>}
    ELSE LET shorter == SeqsUpTo(S, n - 1)
         IN  shorter \cup {Append(s, x) : s \in shorter, x \in S}

----------------------------------------------------------------------------
(* Pure helpers *)

\* str.strip(): drop leading and trailing whitespace
RECURSIVE Strip(_)
Strip(s) ==
    IF s = <<>> THEN <<>>
    ELSE IF Head(s) = " " THEN Strip(Tail(s))
    ELSE IF s[Len(s)] = " " THEN Strip(SubSeq(s, 1, Len(s) - 1))
    ELSE s

\* dict helpers for st.session_state
Has(ss, k) == k \in DOMAIN ss
Put(ss, k, v) == [x \in (DOMAIN ss) \cup {k} |-> IF x = k THEN v ELSE ss[x]]
setdefault(ss, k, v) == IF Has(ss, k) THEN ss ELSE Put(ss, k, v)
Get(ss, k, default) == IF Has(ss, k) THEN ss[k] ELSE default

model_map(label) ==
    IF label = FastLabel THEN "llama3-8b-8192" ELSE "llama3-70b-8192"

----------------------------------------------------------------------------
(* Reading the session *)

vector_store_of(ss) == Get(ss, "vector_store", None)
qa_history_of(ss) == Get(ss, "qa_history", <<>>)
summary_data_of(ss) == Get(ss, "summary_data", None)
summary_generated_of(ss) == Get(ss, "summary_generated", FALSE)

Asked(h) == {h[i].question : i \in 1..Len(h)}
IsPrefix(h1, h2) == Len(h1) <= Len(h2) /\ SubSeq(h2, 1, Len(h1)) = h1
SummaryCached(ss) == summary_generated_of(ss) /\ Truthy(summary_data_of(ss))

----------------------------------------------------------------------------
(* The oracles: what the external collaborators may do in one script run *)

\* UnstructuredURLLoader.load(): it raises, or it returns one document per
\* URL it could load (a URL that fails is skipped by the loader)
PageOutcomes ==
    {[ok |-> FALSE, page_content |-> <<>>]}
        \cup {[ok |-> TRUE, page_content |-> t] : t \in Contents}
FetchOutcomes(url_list) ==
    [raises : BOOLEAN,
     pages : [{url_list[i] : i \in 1..Len(url_list)} -> PageOutcomes]]

\* PyPDFLoader.load(): it raises (corrupt file), or it returns the pages
PdfOutcomes == [raises : BOOLEAN, pages : SeqsUpTo(Contents, MaxPages)]

\* the questions of the canned summary, in the order the loop asks them
SummaryKeys == <<"Benefits", "Process", "Eligibility", "Documents">>
KeySet == {SummaryKeys[i] : i \in 1..Len(SummaryKeys)}

\* the four qa_pipeline.invoke() calls of one summary: fail_at = 0 when
\* all return, else the number of the call that raises (the first or the
\* last one)
SummaryResults ==
    {[key \in KeySet |-> IF key = "Documents" THEN <<" ">> ELSE <<"s", " ">>]}
SummaryOutcomes ==
    [fail_at : {0, 1, Len(SummaryKeys)}, results : SummaryResults]

\* search_kwargs={"k": 10}
search_k == 10

Min(a, b) == IF a < b THEN a ELSE b

\* the retriever returns the k nearest chunks of the index: some
\* min(k, size) of them
TopK(index) ==
    IF index = None THEN {{}}
    ELSE {sel \in SUBSET (1..Len(index.docs)) :
            Cardinality(sel) = Min(search_k, Len(index.docs))}

\* qa_chain.invoke(question): it raises, or it returns an answer and the
\* retrieved chunks
InvokeOutcomes(index) ==
    {[raises |-> TRUE, result |-> <<>>, source_documents |-> {}]}
        \cup {[raises |-> FALSE, result |-> a, source_documents |-> sel] :
                a \in Answers, sel \in TopK(index)}

----------------------------------------------------------------------------
(* The script, phase by phase.  A context c carries the session through   *)
(* one handler: ss (st.session_state), uploads, question (the text input's *)
(* value), summary_src, first_model, and the record of what the run did.   *)

NewRun(ss, ups, q, src, fm) ==
    [ss |-> ss, uploads |-> ups, question |-> q, summary_src |-> src,
     first_model |-> fm,
     status |-> "ok", messages |-> {}, failures |-> {}, rendered |-> {},
     qa_calls |-> 0, summary_calls |-> 0, index_builds |-> 0,
     llm_model |-> "none", processed |-> FALSE, all_documents |-> <<>>]

\* if "logged_once" not in st.session_state: ...
StartupLogging(ss) ==
    IF Has(ss, "logged_once") THEN ss
    ELSE LET s1 == Put(ss, "logged_once", TRUE)
             s2 == IF ~Has(s1, "api_key_logged") /\ GROQ_API_KEY
                   THEN Put(s1, "api_key_logged", TRUE) ELSE s1
         IN  IF ~Has(s2, "model_logged")
             THEN Put(s2, "model_logged", TRUE) ELSE s2

\* a check that lets every run go on
check_api_key_skipped == TRUE

\* check_api_key(): TRUE iff the run goes on (FALSE: st.error, st.stop)
check_api_key == GROQ_API_KEY

\* the four st.session_state.setdefault(...) calls
SetDefaults(ss) ==
    setdefault(setdefault(setdefault(setdefault(ss,
        "qa_history", <<>>),
        "summary_generated", FALSE),
        "vector_store", None),
        "summary_data", None)

\* a selection stored only once per session
SetSelectedModel_once(ss, choice) ==
    LET s1 == setdefault(ss, "selected_model", model_map(choice))
    IN  IF ~Has(s1, "model_logged") THEN Put(s1, "model_logged", TRUE) ELSE s1

\* st.session_state["selected_model"] = model_map[model_choice]
SetSelectedModel(ss, choice) ==
    LET s1 == Put(ss, "selected_model", model_map(choice))
    IN  IF ~Has(s1, "model_logged") THEN Put(s1, "model_logged", TRUE) ELSE s1

\* the script from its first line to the sidebar's model selector
Prelude(c, w) ==
    LET s1 == StartupLogging(c.ss)
    IN  IF ~check_api_key
        THEN [c EXCEPT !.ss = s1, !.status = "stopped",
                       !.messages = @ \cup {"Missing Groq API Key"}]
        ELSE [c EXCEPT !.ss = SetSelectedModel(SetDefaults(s1), w.model_choice),
                       !.rendered = @ \cup {"sidebar"}]

\* a reset that forgets the history
ClearSessionState_keep_history(ss) ==
    [x \in (DOMAIN ss) \cap {"qa_history"} |-> ss[x]]

\* for key in st.session_state.keys(): del st.session_state[key]
ClearSessionState(ss) == [x \in (DOMAIN ss) \ (DOMAIN ss) |-> ss[x]]

\* os.remove() of every file of uploads/; a removal that raises is logged
\* and the file stays
RemoveUploads(ups, undeletable) == ups \cap undeletable

\* if st.button("Reset Tool"): ... st.rerun()
ResetPhase(c, clicked, undeletable) ==
    IF c.status = "ok" /\ clicked
    THEN [c EXCEPT !.ss = ClearSessionState(c.ss),
                   !.uploads = RemoveUploads(c.uploads, undeletable),
                   !.failures = IF RemoveUploads(c.uploads, undeletable) = {}
                                THEN @ ELSE @ \cup {"remove"},
                   !.summary_src = None,
                   !.first_model = "none",
                   !.status = "rerun"]
    ELSE c

\* urls = [line.strip() for line in raw_links.splitlines() if line.strip()]
urls_of(links) ==
    LET NonBlank(l) == Strip(l) # <<>>
        kept == SelectSeq(links, NonBlank)
    IN  [i \in 1..Len(kept) |-> Strip(kept[i])]

\* loader.load(): the documents of the URLs that could be loaded, in order
RECURSIVE load(_, _)
load(url_list, pages) ==
    IF url_list = <<>> THEN <<>>
    ELSE LET u == Head(url_list)
             rest == load(Tail(url_list), pages)
         IN  IF pages[u].ok
             THEN <<[page_content |-> pages[u].page_content, source |-> u]>>
                      \o rest
             ELSE rest

\* RecursiveCharacterTextSplitter(chunk_size=300, chunk_overlap=20)
\* .split_documents(docs), for documents no longer than one chunk: a
\* document gives one chunk, its text stripped, with the document's
\* source; a document of whitespace gives none
RECURSIVE split_documents(_)
split_documents(docs) ==
    IF docs = <<>> THEN <<>>
    ELSE LET d == Head(docs)
             text == Strip(d.page_content)
         IN  (IF text = <<>> THEN <<>>
              ELSE <<[page_content |-> text, source |-> d.source]>>)
                 \o split_documents(Tail(docs))

AllBlank(docs) == \A i \in 1..Len(docs) : Strip(docs[i].page_content) = <<>>

\* fetch_and_split_documents(url_list): docs is the returned list (<<>>
\* stands for the None it returns, which the caller only tests for truth)
fetch_and_split_documents(url_list, fetch) ==
    IF fetch.raises
    THEN [docs |-> <<>>, messages |-> {"Error loading content"},
          failures |-> {"url_load"}]
    ELSE LET raw_docs == load(url_list, fetch.pages)
         IN  IF raw_docs = <<>> \/ AllBlank(raw_docs)
             THEN [docs |-> <<>>, messages |-> {}, failures |-> {}]
             ELSE [docs |-> split_documents(raw_docs), messages |-> {},
                   failures |-> {}]

uploads_source(name) == <<"/uploads/", name>>

\* read_uploaded_pdf(pdf_file): the file is written to uploads/ first, then
\* loaded; a load that raises propagates to the caller
read_uploaded_pdf(pdf_file, pdf) ==
    [saved |-> pdf_file.name,
     raised |-> pdf.raises,
     pages |-> IF pdf.raises THEN <<>>
               ELSE [i \in 1..Len(pdf.pages) |->
                        [page_content |-> pdf.pages[i],
                         source |-> uploads_source(pdf_file.name)]]]

\* an index that grows: the new chunks are added to the session's index
store_in_faiss_merge(text_chunks) ==
    [kind |-> "FAISS",
     docs |-> (IF Truthy(vector_store_of(session_state))
               THEN vector_store_of(session_state).docs ELSE <<>>)
                  \o text_chunks]

\* store_in_faiss(text_chunks): FAISS.from_documents(text_chunks, ...)
store_in_faiss(text_chunks) == [kind |-> "FAISS", docs |-> text_chunks]

\* an index built whether or not anything was collected
IndexOrWarn_always(c, all_documents) ==
    [c EXCEPT !.ss = Put(@, "vector_store", store_in_faiss(all_documents)),
              !.index_builds = @ + 1,
              !.processed = TRUE, !.all_documents = all_documents]

\* a pass that collected nothing drops the session's index
IndexOrWarn_unset(c, all_documents) ==
    IF all_documents # <<>>
    THEN [c EXCEPT !.ss = Put(@, "vector_store", store_in_faiss(all_documents)),
                   !.index_builds = @ + 1,
                   !.processed = TRUE, !.all_documents = all_documents]
    ELSE [c EXCEPT !.ss = Put(@, "vector_store", None),
                   !.messages = @ \cup {"Could not extract usable text"},
                   !.processed = TRUE, !.all_documents = all_documents]

\* if all_documents: ... vector_store = store_in_faiss(all_documents)
\* else: st.warning(...)
IndexOrWarn(c, all_documents) ==
    IF all_documents # <<>>
    THEN [c EXCEPT !.ss = Put(@, "vector_store", store_in_faiss(all_documents)),
                   !.index_builds = @ + 1,
                   !.processed = TRUE, !.all_documents = all_documents]
    ELSE [c EXCEPT !.messages = @ \cup {"Could not extract usable text"},
                   !.processed = TRUE, !.all_documents = all_documents]

\* if start_processing: ...
ProcessPhase(c, w, clicked, fetch, pdf) ==
    IF ~(c.status = "ok" /\ clicked) THEN c
    ELSE
    LET urls == IF w.raw_links # <<>> THEN urls_of(w.raw_links) ELSE <<>>
        fetched == IF urls # <<>> THEN fetch_and_split_documents(urls, fetch)
                   ELSE [docs |-> <<>>, messages |-> {}, failures |-> {}]
        c1 == [c EXCEPT !.messages = @ \cup fetched.messages,
                        !.failures = @ \cup fetched.failures]
    IN  IF Truthy(w.url_file)
        THEN LET read == read_uploaded_pdf(w.url_file, pdf)
                 c2 == [c1 EXCEPT !.uploads = @ \cup {read.saved}]
             IN  IF read.raised
                 THEN [c2 EXCEPT !.status = "uncaught",
                                 !.messages = @ \cup {"Exception"},
                                 !.failures = @ \cup {"pdf_load"}]
                 ELSE IndexOrWarn(c2,
                          fetched.docs \o
                              (IF read.pages # <<>>
                               THEN split_documents(read.pages) ELSE <<>>))
        ELSE IndexOrWarn(c1, fetched.docs)

NoInformation == <<"No information found.">>

\* summary[key] = result["result"].strip() or "No information found."
summary_entry(result) ==
    IF Strip(result) = <<>> THEN NoInformation ELSE Strip(result)

\* summarize_sections(index): the dict it returns when no call raises
summarize_sections(index, results) ==
    [kind |-> "dict", items |-> [key \in KeySet |-> summary_entry(results[key])]]

\* if st.session_state.vector_store: if st.button("Generate Summary"): ...
\* (no handler around summarize_sections: a call that raises ends the run)
SummaryPhase(c, clicked, so) ==
    IF ~(c.status = "ok" /\ Truthy(c.ss["vector_store"])) THEN c
    ELSE
    LET c1 == [c EXCEPT !.rendered = @ \cup {"summary_button"}]
    IN  IF ~clicked THEN c1
        ELSE IF so.fail_at # 0
        THEN [c1 EXCEPT !.llm_model = c.ss["selected_model"],
                        !.summary_calls = so.fail_at,
                        !.status = "uncaught",
                        !.messages = @ \cup {"Exception"},
                        !.failures = @ \cup {"summary"}]
        ELSE [c1 EXCEPT !.llm_model = c.ss["selected_model"],
                        !.summary_calls = Len(SummaryKeys),
                        !.ss = Put(Put(@, "summary_data",
                                       summarize_sections(c.ss["vector_store"],
                                                          so.results)),
                                   "summary_generated", TRUE),
                        !.summary_src = c.ss["vector_store"]]

\* a question box that remembers no earlier question
InHistory_never(q, qa_history) == FALSE

\* any(q["question"] == question for q in st.session_state.qa_history)
InHistory(q, qa_history) ==
    \E i \in 1..Len(qa_history) : qa_history[i].question = q

\* the set of metadata["source"] of the retrieved chunks
source_urls(index, source_documents) ==
    {index.docs[i].source : i \in source_documents}

\* if st.session_state.vector_store: question = st.text_input(...) ...
QuestionPhase(c, inv) ==
    IF ~(c.status = "ok" /\ Truthy(c.ss["vector_store"])) THEN c
    ELSE
    LET c1 == [c EXCEPT !.rendered = @ \cup {"question_input"}]
    IN  IF c.question = "" \/ InHistory(c.question, c.ss["qa_history"])
        THEN c1
        ELSE IF inv.raises
        THEN [c1 EXCEPT !.llm_model = c.ss["selected_model"],
                        !.qa_calls = @ + 1,
                        !.messages = @ \cup {"Error answering the question"},
                        !.failures = @ \cup {"answer"}]
        ELSE [c1 EXCEPT !.llm_model = c.ss["selected_model"],
                        !.qa_calls = @ + 1,
                        !.ss = Put(Put(@, "qa_history",
                                       Append(c.ss["qa_history"],
                                              [question |-> c.question,
                                               answer |-> inv.result,
                                               sources |->
                                                   source_urls(c.ss["vector_store"],
                                                               inv.source_documents)])),
                                   "current_question", ""),
                        !.first_model = IF c.ss["qa_history"] = <<>>
                                        THEN c.ss["selected_model"] ELSE @,
                        !.status = "rerun"]

\* a widget that a completed run did not render loses its value: the text
\* input is rendered only while the session holds an index
DropStaleWidgets(c) ==
    IF c.status = "ok" /\ ~("question_input" \in c.rendered)
    THEN [c EXCEPT !.question = ""]
    ELSE c

\* x, evaluated once, handed to F
Then(x, F(_)) == CHOOSE r \in {F(v) : v \in {x}} : TRUE

\* one run of the script, up to the question box
BeforeQuestion(c, w, buttons, orc) ==
    Then(Prelude(c, w), LAMBDA c1 :
    Then(ResetPhase(c1, buttons.reset, orc.undeletable), LAMBDA c2 :
    Then(ProcessPhase(c2, w, buttons.process, orc.fetch, orc.pdf), LAMBDA c3 :
         SummaryPhase(c3, buttons.summary, orc.summary))))

\* one run of the script
ScriptRun(c, w, buttons, orc) ==
    Then(BeforeQuestion(c, w, buttons, orc), LAMBDA c4 :
    Then(QuestionPhase(c4, orc.invoke), LAMBDA c5 :
         DropStaleWidgets(c5)))

NoButtons == [process |-> FALSE, reset |-> FALSE, summary |-> FALSE]

\* the run of one user event, and the run st.rerun() starts after it: the
\* rerun has no button pressed and starts rendering afresh
Handle(c, w, buttons, orc) ==
    Then(ScriptRun(c, w, buttons, orc), LAMBDA first :
        IF first.status = "rerun"
        THEN Then(ScriptRun([first EXCEPT !.status = "ok", !.rendered = {}],
                            w, NoButtons, orc),
                  LAMBDA second :
                      [second EXCEPT !.status = IF @ = "rerun" THEN "ok" ELSE @])
        ELSE first)

----------------------------------------------------------------------------
(* The state machine *)

UploadedFiles == {[kind |-> "UploadedFile", name |-> n] : n \in PdfNames}

\* oracle outcomes for the collaborators a run does not call
NoFetch == [raises |-> FALSE, pages |-> <<>>]
NoPdf == [raises |-> FALSE, pages |-> <<>>]
NoSummary == [fail_at |-> 0, results |-> [key \in KeySet |-> <<>>]]
NoInvoke == [raises |-> TRUE, result |-> <<>>, source_documents |-> {}]

Oracle(undeletable, fetch, pdf, so, inv) ==
    [undeletable |-> undeletable, fetch |-> fetch, pdf |-> pdf,
     summary |-> so, invoke |-> inv]

Widgets(it, links, file, choice, q) ==
    [input_type |-> it, raw_links |-> links, url_file |-> file,
     model_choice |-> choice, question |-> q]

RunRecord(button, c) ==
    [button |-> button, status |-> c.status, messages |-> c.messages,
     failures |-> c.failures, rendered |-> c.rendered,
     qa_calls |-> c.qa_calls, summary_calls |-> c.summary_calls,
     index_builds |-> c.index_builds, llm_model |-> c.llm_model,
     processed |-> c.processed, all_documents |-> c.all_documents]

\* a user event leaves the widgets at w and presses `buttons` (`button`
\* names the one pressed, "none" for a widget change);
\* the script runs to its end against the oracles.  The retrieval chain's
\* outcome is drawn only when the run calls it (a run against a chain that
\* raises tells whether it does).
Event(button, w, buttons, undeletable, fetch, pdf, so) ==
    \E c0 \in {NewRun(session_state, uploads, w.question, summary_src,
                       first_model)} :
    \E dry \in {Handle(c0, w, buttons,
                       Oracle(undeletable, fetch, pdf, so, NoInvoke))} :
    \E inv \in (IF dry.qa_calls > 0
                THEN InvokeOutcomes(dry.ss["vector_store"])
                ELSE {NoInvoke}) :
    \E c \in {IF inv = NoInvoke THEN dry
              ELSE Handle(c0, w, buttons,
                          Oracle(undeletable, fetch, pdf, so, inv))} :
        /\ input_type' = w.input_type
        /\ raw_links' = w.raw_links
        /\ url_file' = w.url_file
        /\ model_choice' = w.model_choice
        /\ question' = c.question
        /\ session_state' = c.ss
        /\ uploads' = c.uploads
        /\ summary_src' = c.summary_src
        /\ first_model' = c.first_model
        /\ last_run' = RunRecord(button, c)
        /\ UNCHANGED GROQ_API_KEY

Current == Widgets(input_type, raw_links, url_file, model_choice, question)

Init ==
    /\ GROQ_API_KEY \in BOOLEAN
    /\ input_type = "None"
    /\ raw_links = <<>>
    /\ url_file = None
    /\ model_choice = FastLabel
    /\ LET c == Handle(NewRun(<<>>, {}, "", None, "none"),
                       Widgets("None", <<>>, None, FastLabel, ""), NoButtons,
                       Oracle({}, NoFetch, NoPdf, NoSummary, NoInvoke))
       IN  /\ question = c.question
           /\ session_state = c.ss
           /\ uploads = c.uploads
           /\ summary_src = c.summary_src
           /\ first_model = c.first_model
           /\ last_run = RunRecord("none", c)

\* the user reruns the script from the Streamlit menu
RerunScript ==
    Event("none", Current, NoButtons, {}, NoFetch, NoPdf, NoSummary)

\* st.radio("Choose input method:", ...): the other input's widget is not
\* rendered any more and loses its value
SelectInputType ==
    /\ "sidebar" \in last_run.rendered
    /\ \E t \in InputTypes \ {input_type} :
           Event("none", [Current EXCEPT !.input_type = t,
                                          !.raw_links = <<>>,
                                          !.url_file = None],
                 NoButtons, {}, NoFetch, NoPdf, NoSummary)

\* st.text_area("Paste one URL per line")
EnterLinks ==
    /\ "sidebar" \in last_run.rendered
    /\ input_type = "URLs"
    /\ \E links \in SeqsUpTo(Lines, MaxLines) \ {raw_links} :
           Event("none", [Current EXCEPT !.raw_links = links],
                 NoButtons, {}, NoFetch, NoPdf, NoSummary)

\* st.file_uploader("", type=["pdf"])
UploadPdf ==
    /\ "sidebar" \in last_run.rendered
    /\ input_type = "PDF"
    /\ \E file \in (UploadedFiles \cup {None}) \ {url_file} :
           Event("none", [Current EXCEPT !.url_file = file],
                 NoButtons, {}, NoFetch, NoPdf, NoSummary)

\* st.radio("Choose Model:", ...)
ChooseModel ==
    /\ "sidebar" \in last_run.rendered
    /\ \E choice \in ModelLabels \ {model_choice} :
           Event("none", [Current EXCEPT !.model_choice = choice],
                 NoButtons, {}, NoFetch, NoPdf, NoSummary)

\* st.button("Process")
ClickProcess ==
    /\ "sidebar" \in last_run.rendered
    /\ \E fetch \in (IF urls_of(raw_links) # <<>>
                       THEN FetchOutcomes(urls_of(raw_links)) ELSE {NoFetch}),
          pdf \in (IF Truthy(url_file) THEN PdfOutcomes ELSE {NoPdf}) :
           Event("process", Current, [NoButtons EXCEPT !.process = TRUE],
                 {}, fetch, pdf, NoSummary)

\* st.button("Reset Tool")
ClickReset ==
    /\ "sidebar" \in last_run.rendered
    /\ \E undeletable \in SUBSET uploads :
           Event("reset", Current, [NoButtons EXCEPT !.reset = TRUE],
                 undeletable, NoFetch, NoPdf, NoSummary)

\* st.button("Generate Summary")
ClickGenerateSummary ==
    /\ "summary_button" \in last_run.rendered
    /\ \E so \in SummaryOutcomes :
           Event("summary", Current, [NoButtons EXCEPT !.summary = TRUE],
                 {}, NoFetch, NoPdf, so)

\* st.text_input("What would you like to know about the scheme?")
SubmitQuestion ==
    /\ "question_input" \in last_run.rendered
    /\ \E q \in (Questions \cup {""}) \ {question} :
           Event("none", [Current EXCEPT !.question = q],
                 NoButtons, {}, NoFetch, NoPdf, NoSummary)

Next ==
    \/ RerunScript
    \/ SelectInputType
    \/ EnterLinks
    \/ UploadPdf
    \/ ChooseModel
    \/ ClickProcess
    \/ ClickReset
    \/ ClickGenerateSummary
    \/ SubmitQuestion

Spec == Init /\ [][Next]_vars

----------------------------------------------------------------------------
(* C1: the history never holds two records with the same question, and a   *)
(* run whose question box holds a question that is already in the history   *)
(* calls the retrieval chain for no question and leaves the history, its    *)
(* recorded answers included, as it was.                                    *)
C1_QuestionOnce ==
    [][LET h == qa_history_of(session_state)
           hn == qa_history_of(session_state')
       IN  /\ \A i, j \in 1..Len(hn) :
                  hn[i].question = hn[j].question => i = j
           /\ (question' \in Asked(h) /\ last_run'.button # "reset")
                  => (hn = h /\ last_run'.qa_calls = 0)]_vars

\* q1 and then q2 were answered, q1 is in the box again, and the run made no
\* call
C1_Witness ==
    /\ Len(qa_history_of(session_state)) = 2
    /\ question = qa_history_of(session_state)[1].question
    /\ last_run.qa_calls = 0
    /\ last_run.status = "ok"

----------------------------------------------------------------------------
SessionKeys ==
    {"logged_once", "api_key_logged", "model_logged", "qa_history",
     "summary_generated", "vector_store", "summary_data", "selected_model"}

\* the session fields after a Reset: those of a session just started
FreshSession ==
    /\ DOMAIN session_state = SessionKeys
    /\ session_state["vector_store"] = None
    /\ session_state["qa_history"] = <<>>
    /\ session_state["summary_data"] = None
    /\ session_state["summary_generated"] = FALSE
    /\ session_state["selected_model"] = model_map(model_choice)
    /\ question = ""
    /\ last_run.rendered = {"sidebar"}

----------------------------------------------------------------------------
(* C3: a run in which answering a question or generating the summary fails  *)
(* ends with the failure caught and shown as an error message; the failed   *)
(* question is not added to the history, the failed summary is not stored,  *)
(* and the history and summary from before the run are intact.              *)
C3_FailuresCaught ==
    [][(last_run'.failures \cap {"answer", "summary"} # {})
          => /\ last_run'.status = "ok"
             /\ "Exception" \notin last_run'.messages
             /\ "answer" \in last_run'.failures
                    => "Error answering the question" \in last_run'.messages
             /\ qa_history_of(session_state') = qa_history_of(session_state)
             /\ "summary" \in last_run'.failures
                    => summary_data_of(session_state')
                           = summary_data_of(session_state)]_vars

----------------------------------------------------------------------------
(* C4: Generate Summary pressed while a summary is cached, in a run in      *)
(* which nothing fails and the index stays as it was, makes no              *)
(* retrieve-then-generate call and leaves summary_data unchanged.           *)
C4_SummaryOnce ==
    [][(/\ last_run'.button = "summary"
        /\ last_run'.failures = {}
        /\ SummaryCached(session_state)
        /\ vector_store_of(session_state') = vector_store_of(session_state))
          => /\ last_run'.summary_calls = 0
             /\ summary_data_of(session_state')
                    = summary_data_of(session_state)]_vars

----------------------------------------------------------------------------
\* the sources the inputs of the sidebar name
InputSources ==
    {urls_of(raw_links)[i] : i \in 1..Len(urls_of(raw_links))}
        \cup (IF Truthy(url_file) THEN {uploads_source(url_file.name)} ELSE {})

(* C5: after a Process run that collected at least one chunk, the run has   *)
(* built exactly one index, the session's index holds exactly the chunks    *)
(* collected in that run, and every chunk of it comes from a source the     *)
(* inputs of that run name.                                                 *)
C5_IndexOfThisPass ==
    (last_run.button = "process" /\ last_run.processed
         /\ last_run.all_documents # <<>>)
        => /\ last_run.index_builds = 1
           /\ vector_store_of(session_state).kind = "FAISS"
           /\ vector_store_of(session_state).docs = last_run.all_documents
           /\ \A i \in 1..Len(vector_store_of(session_state).docs) :
                  vector_store_of(session_state).docs[i].source \in InputSources

\* a Process run that replaced the index an earlier summary was made from,
\* an index over another source
C5_Witness ==
    /\ last_run.button = "process"
    /\ last_run.index_builds = 1
    /\ Truthy(summary_src)
    /\ \A i \in 1..Len(summary_src.docs) :
           summary_src.docs[i].source \notin InputSources

----------------------------------------------------------------------------
(* C6: a Process run in which acquiring the URLs or the PDF fails is not    *)
(* aborted: the failure is caught and shown as a message, the run goes on   *)
(* to index what it acquired, and the history and the summary from before   *)
(* the run are preserved.                                                   *)
C6_AcquisitionErrorsCaught ==
    [][(/\ last_run'.button = "process"
        /\ last_run'.failures \cap {"url_load", "pdf_load"} # {})
          => /\ last_run'.status = "ok"
             /\ "Exception" \notin last_run'.messages
             /\ last_run'.processed
             /\ IsPrefix(qa_history_of(session_state),
                         qa_history_of(session_state'))
             /\ summary_data_of(session_state')
                    = summary_data_of(session_state)]_vars

----------------------------------------------------------------------------
(* C7: every call of the hosted model, for a question or for the summary,   *)
(* uses the model selected in the sidebar at the time of that run; and a    *)
(* run in which the selection changes leaves every record already in the    *)
(* history as it was (the history can only have grown by the new answer).   *)
C7_ModelReadAtCall ==
    [][/\ (last_run'.qa_calls > 0 \/ last_run'.summary_calls > 0)
              => last_run'.llm_model = model_map(model_choice')
       /\ model_choice' # model_choice
              => IsPrefix(qa_history_of(session_state),
                          qa_history_of(session_state'))]_vars

\* the first question was answered by the fast model and then, the
\* selection changed, the second one by the accurate model
C7_Witness ==
    /\ first_model = "llama3-8b-8192"
    /\ model_choice = AccurateLabel
    /\ Len(qa_history_of(session_state)) = 2
    /\ last_run.qa_calls = 1
    /\ last_run.llm_model = "llama3-70b-8192"

----------------------------------------------------------------------------
(* C8: a Process run that had no URL and no PDF to read, or that collected  *)
(* no chunk from what it read, shows the "no usable text" warning, builds   *)
(* no index and leaves the session's index as it was.                       *)
C8_NothingUsable ==
    [][(/\ last_run'.button = "process"
        /\ last_run'.status # "stopped"
        /\ \/ (urls_of(raw_links') = <<>> /\ ~Truthy(url_file'))
           \/ (last_run'.processed /\ last_run'.all_documents = <<>>))
          => /\ "Could not extract usable text" \in last_run'.messages
             /\ last_run'.index_builds = 0
             /\ last_run'.status = "ok"
             /\ vector_store_of(session_state')
                    = vector_store_of(session_state)]_vars

\* Process pressed with nothing to read in a session without an index: the
\* warning is shown and the index is still unset
C8_Witness ==
    /\ last_run.button = "process"
    /\ urls_of(raw_links) = <<>>
    /\ ~Truthy(url_file)
    /\ "Could not extract usable text" \in last_run.messages
    /\ vector_store_of(session_state) = None

----------------------------------------------------------------------------
(* C9: without the credential every run stops at its start with the error   *)
(* message: nothing of the page is rendered, no index, history, summary or  *)
(* model selection is ever stored, no file is written and no model is       *)
(* called.                                                                  *)
C9_MissingKeyHalts ==
    ~GROQ_API_KEY
        => /\ last_run.status = "stopped"
           /\ "Missing Groq API Key" \in last_run.messages
           /\ last_run.rendered = {}
           /\ last_run.button = "none"
           /\ DOMAIN session_state \subseteq {"logged_once", "model_logged"}
           /\ uploads = {}
           /\ last_run.qa_calls = 0 /\ last_run.summary_calls = 0
           /\ last_run.index_builds = 0

\* a run without the credential has stopped
C9_Witness ==
    /\ ~GROQ_API_KEY
    /\ last_run.status = "stopped"
    /\ "Missing Groq API Key" \in last_run.messages

----------------------------------------------------------------------------
(* C10: whenever a summary is cached and displayed, it was generated from   *)
(* the index the session holds now.                                         *)
C10_SummaryOfCurrentIndex ==
    SummaryCached(session_state)
        => summary_src = vector_store_of(session_state)

----------------------------------------------------------------------------
(* C11: in every state a non-empty qa_history or a set summary_data comes   *)
(* with a set vector index; a run makes a question or summary call only     *)
(* with an index in the session when it ends; and a run that takes a set    *)
(* index to an unset one is a Reset run, which leaves the history empty and *)
(* the summary unset.                                                       *)
C11_IndexBeforeAnswers ==
    /\ ((qa_history_of(session_state) # <<>>
             \/ Truthy(summary_data_of(session_state)))
            => Truthy(vector_store_of(session_state)))
    /\ [][LET h == qa_history_of(session_state')
               sd == summary_data_of(session_state')
               vs == vector_store_of(session_state)
               vsn == vector_store_of(session_state')
           IN  /\ ((h # <<>> \/ Truthy(sd)) => Truthy(vsn))
               /\ ((last_run'.qa_calls > 0 \/ last_run'.summary_calls > 0)
                      => Truthy(vsn))
               /\ ((Truthy(vs) /\ ~Truthy(vsn))
                      => (/\ last_run'.button = "reset"
                          /\ h = <<>>
                          /\ ~Truthy(sd)))]_vars

\* a session with an answered question and a summary went through a Process
\* pass that collected nothing, and still holds its index
C11_Witness ==
    /\ last_run.button = "process"
    /\ last_run.processed
    /\ last_run.index_builds = 0
    /\ qa_history_of(session_state) # <<>>
    /\ Truthy(summary_data_of(session_state))
    /\ Truthy(vector_store_of(session_state))

====
